---- MODULE Spec2Model ----
(***************************************************************************)
(* Model of the security and format core of EAIP_Viewer:                   *)
(*   - AIPKGBuilder.create_package   (src/src/core/aipkg_builder.py)       *)
(*   - OfflineCredentialManager      (src/src/core/offline_credential.py)  *)
(*   - HybridSecurityManager         (src/src/core/hybrid_security.py)     *)
(*                                                                         *)
(* Byte strings are modelled by their length and by the identity of the   *)
(* value they carry; AES-GCM and PBKDF2 are modelled as injective         *)
(* constructors (a ciphertext opens only under the key, IV and associated *)
(* data it was sealed with).  Passwords are sequences of one-character    *)
(* strings.  Time is counted in days.                                     *)
(***************************************************************************)
EXTENDS Integers, Sequences, FiniteSets, TLC

VARIABLES
    \* ---- AIPKGBuilder and one create_package call --------------------
    pc,               \* position of the create_package call
    args,             \* arguments of the call
    srcTree,          \* files found under source_dir
    builder,          \* AIPKGBuilder fields: master_key, master_salt, enable_compression
    file_list,        \* result of _scan_files
    file_entries,     \* FileEntry list
    encrypted_blocks, \* sealed blobs of the first pass
    index,            \* index_iv, index_length, first and second seal of the index
    fs,               \* output_path, output_path + '.tmp', and whether their directory exists
    fs0,              \* fs as it was when create_package was called
    outcome,          \* how the call ended
    result,           \* the dict create_package returned
    \* ---- HybridSecurityManager, its vault and its environment --------
    dist_password,    \* HybridSecurityManager._DISTRIBUTION_PASSWORD (class attribute)
    auth,             \* per instance: current_user, current_token, is_online_mode, key holder
    vault,            \* credential files, by the username whose hash names the file
    now,              \* clock (days)
    device_fp,        \* what get_device_fingerprint() returns now
    last,             \* record of the last operation performed (observation)
    authed,           \* per instance: an authenticate call returned True since construction / logout
    \* ---- functions of aipkg_format.py and encryption_utils.py ---------
    probe,            \* the last function application: its argument and its value
    \* ---- scripts/build_aipkg.py --------------------------------------
    cli               \* main(): where it is, and the exit code it returned

vars == <<pc, args, srcTree, builder, file_list, file_entries, encrypted_blocks,
          index, fs, fs0, outcome, result, dist_password, auth, vault, now, device_fp,
          last, authed, probe, cli>>

buildVars == <<pc, args, srcTree, builder, file_list, file_entries, encrypted_blocks,
               index, fs, fs0, outcome, result>>

authVars == <<dist_password, auth, vault, now, device_fp, last, authed>>

\* ------------------------------------------------------------------------
\* Generic helpers
\* ------------------------------------------------------------------------

Max(a, b) == IF a >= b THEN a ELSE b

RECURSIVE SumSeq(_)
SumSeq(s) == IF s = <<>> THEN 0 ELSE Head(s) + SumSeq(Tail(s))

\* len(str(n)) for n >= 0: the width of an integer in the JSON text
RECURSIVE DecLen(_)
DecLen(n) == IF n < 10 THEN 1 ELSE 1 + DecLen(n \div 10)

\* ------------------------------------------------------------------------
\* encryption_utils.py
\* ------------------------------------------------------------------------

PBKDF2_ITERATIONS == 100000
IV_SIZE == 12
SALT_SIZE == 32
GCM_TAG_SIZE == 16

NoKey == [pw |-> <<>>, salt |-> "None", it |-> 0]

\* derive_master_key raises ValueError on an empty password
DeriveFails(password) == Len(password) = 0

\* derive_master_key: PBKDF2-HMAC-SHA256 is a function of (password, salt, iterations)
derive_master_key(password, salt, iterations) ==
    [pw |-> password, salt |-> salt, it |-> iterations]

\* encrypt_data: AES-256-GCM; the ciphertext is len(plaintext) + 16 bytes long
encrypt_data(plaintext, ptlen, key, iv, associated_data) ==
    [pt |-> plaintext, key |-> key, iv |-> iv, aad |-> associated_data,
     len |-> ptlen + GCM_TAG_SIZE]

\* a decryption that does not authenticate the associated data
DecryptIgnoresAad(ciphertext, key, iv, associated_data) ==
    /\ ciphertext.key = key
    /\ ciphertext.iv = iv

\* decrypt_data succeeds exactly under the key, IV and AAD of the seal
DecryptOk(ciphertext, key, iv, associated_data) ==
    /\ ciphertext.key = key
    /\ ciphertext.iv = iv
    /\ ciphertext.aad = associated_data

Lower == {"a","b","c","d","e","f","g","h","i","j","k","l","m",
          "n","o","p","q","r","s","t","u","v","w","x","y","z"}
Upper == {"A","B","C","D","E","F","G","H","I","J","K","L","M",
          "N","O","P","Q","R","S","T","U","V","W","X","Y","Z"}
\* the class \d of a str pattern: every Unicode decimal digit, of which
\* ARABIC-INDIC DIGIT THREE stands for those outside 0-9
ArabicIndicThree == "U+0663"
Digit == {"0","1","2","3","4","5","6","7","8","9", ArabicIndicThree}

\* letters outside a-z and A-Z: LATIN LETTER N WITH TILDE, capital and small
CapitalNTilde == "U+00D1"
SmallNTilde == "U+00F1"

UpperSeq == <<"A","B","C","D","E","F","G","H","I","J","K","L","M",
              "N","O","P","Q","R","S","T","U","V","W","X","Y","Z">>
LowerSeq == <<"a","b","c","d","e","f","g","h","i","j","k","l","m",
              "n","o","p","q","r","s","t","u","v","w","x","y","z">>

\* str.lower() on one character
LowerChar(c) ==
    IF c \in Upper THEN LowerSeq[CHOOSE i \in 1..26 : UpperSeq[i] = c]
    ELSE IF c = CapitalNTilde THEN SmallNTilde
    ELSE c

LowerStr(s) == [i \in 1..Len(s) |-> LowerChar(s[i])]

weak_passwords == {
    <<"p","a","s","s","w","o","r","d">>,
    <<"1","2","3","4","5","6","7","8">>,
    <<"q","w","e","r","t","y">>,
    <<"a","b","c","1","2","3">>,
    <<"p","a","s","s","w","o","r","d","1","2","3">>,
    <<"a","d","m","i","n","1","2","3">>,
    <<"8","8","8","8","8","8","8","8">> }

MIN_PASSWORD_LEN == 8

\* a strength predicate that accepts every password
AcceptsEveryPassword(password) == TRUE

\* the special characters of line 263
Special == {"!","@","#","$","%","^","&","*","(",")",",",".","?",":","{","}","|","<",">"}

\* a strength predicate that also rejects a password without a special
\* character
RejectsWithoutSpecial(password) ==
    /\ Len(password) >= 8
    /\ \E i \in 1..Len(password) : password[i] \in Lower
    /\ \E i \in 1..Len(password) : password[i] \in Upper
    /\ \E i \in 1..Len(password) : password[i] \in Digit
    /\ \E i \in 1..Len(password) : password[i] \in Special
    /\ LowerStr(password) \notin weak_passwords

verify_password_strength(password) ==
    /\ Len(password) >= MIN_PASSWORD_LEN
    /\ \E i \in 1..Len(password) : password[i] \in Lower
    /\ \E i \in 1..Len(password) : password[i] \in Upper
    /\ \E i \in 1..Len(password) : password[i] \in Digit
    /\ LowerStr(password) \notin weak_passwords

\* ------------------------------------------------------------------------
\* aipkg_format.py
\* ------------------------------------------------------------------------

HEADER_SIZE == 512

\* A byte string: the bytes of value followed by zero bytes up to n bytes in
\* all (n is the length of the string)
PadTo(value, n) == [value |-> value, field_size |-> n]

\* AIPKGHeader() with default field values (__post_init__ fills the byte
\* fields with zeros): the placeholder written first.  metadata is the
\* number of characters of the version text.
PlaceholderHeader ==
    [index_offset |-> 0, index_length |-> 0, index_iv |-> PadTo(0, 32),
     master_salt |-> PadTo("zero", 32), file_hash |-> PadTo(<<>>, 64),
     total_files |-> 0, total_data_size |-> 0, compression_algo |-> 1, metadata |-> 0]

\* struct.pack of a bytes field with 'Ns': padded with zeros to n bytes, cut
\* to n bytes when longer
Pack(bytes, n) ==
    IF bytes.field_size <= n THEN PadTo(bytes.value, n)
    ELSE PadTo([first |-> n, of |-> bytes.value], n)

\* AIPKGHeader.to_bytes (lines 82-114): index_iv is packed with 32s,
\* master_salt with 32s, file_hash with 64s, metadata cut and padded to 128
to_bytes(header) ==
    [header EXCEPT !.index_iv = Pack(header.index_iv, 32),
                   !.master_salt = Pack(header.master_salt, 32),
                   !.file_hash = Pack(header.file_hash, 64),
                   !.metadata = PadTo(IF header.metadata < 128 THEN header.metadata ELSE 128,
                                      128)]

\* AIPKGHeader.from_bytes (lines 116-163): the byte fields are taken at
\* their packed width; metadata is stripped of the zero bytes at its end
from_bytes(data) == [data EXCEPT !.metadata = data.metadata.value]

\* Byte length of the JSON text of the index outside the "files" array
\* (package_info, airports, categories) and of one file entry outside its
\* offset; neither changes between the two to_json calls of one build.
IndexBaseLen == 120
EntryBaseLen == 40

RECURSIVE EntriesJsonLen(_)
EntriesJsonLen(entries) ==
    IF entries = <<>> THEN 0
    ELSE EntryBaseLen + DecLen(Head(entries).offset) + EntriesJsonLen(Tail(entries))

\* PackageIndex.to_json: json.dumps writes every offset in decimal
IndexJsonLen(entries) == IndexBaseLen + EntriesJsonLen(entries)

\* ------------------------------------------------------------------------
\* The source tree handed to create_package
\* ------------------------------------------------------------------------

\* Characters in code-point order: the order Python compares strings in
CharOrder == <<" ", ".", "0", "1", "2", "7", "A", "B", "D", "I", "R", "S", "T", "Z",
               "_", "a", "b", "d", "f", "i", "n", "p", "s", "t", "x", "z">>

CharRank(c) == CHOOSE i \in 1..Len(CharOrder) : CharOrder[i] = c

\* s < t for Python strings
RECURSIVE StrLess(_, _)
StrLess(s, t) ==
    IF t = <<>> THEN FALSE
    ELSE IF s = <<>> THEN TRUE
    ELSE IF Head(s) /= Head(t) THEN CharRank(Head(s)) < CharRank(Head(t))
    ELSE StrLess(Tail(s), Tail(t))

\* str.upper() on one character
UpperChar(c) ==
    IF c \in Lower THEN UpperSeq[CHOOSE i \in 1..26 : LowerSeq[i] = c] ELSE c

ZBAA == <<"Z","B","A","A">>
ZSSS == <<"Z","S","S","S">>
SID == <<"S","I","D">>
STAR == <<"S","T","A","R">>
A_PDF == <<"a",".","p","d","f">>
B_PDF == <<"b",".","p","d","f">>
N_TXT == <<"n",".","t","x","t">>

\* Files that may lie under source_dir: airport directory, category
\* directory, file name, size, size of gzip.compress(content), content.
DiskFiles == {
    [adir |-> ZBAA, cdir |-> SID, name |-> A_PDF, size |-> 30, gzsize |-> 21, content |-> "c1"],
    [adir |-> ZBAA, cdir |-> STAR, name |-> B_PDF, size |-> 9, gzsize |-> 29, content |-> "c2"],
    [adir |-> ZSSS, cdir |-> SID, name |-> A_PDF, size |-> 40, gzsize |-> 24, content |-> "c3"],
    [adir |-> ZBAA, cdir |-> <<"s","i","d">>, name |-> A_PDF, size |-> 8, gzsize |-> 28, content |-> "c4"],
    [adir |-> <<"Z","B">>, cdir |-> SID, name |-> A_PDF, size |-> 11, gzsize |-> 31, content |-> "c5"],
    [adir |-> ZSSS, cdir |-> SID, name |-> N_TXT, size |-> 5, gzsize |-> 25, content |-> "c6"] }

\* Path.glob('*.pdf')
IsPdfName(name) ==
    /\ Len(name) >= 4
    /\ SubSeq(name, Len(name) - 3, Len(name)) = <<".","p","d","f">>

\* str.strip()
RECURSIVE LStrip(_)
LStrip(s) == IF s /= <<>> /\ Head(s) = " " THEN LStrip(Tail(s)) ELSE s

RECURSIVE RStrip(_)
RStrip(s) == IF s /= <<>> /\ s[Len(s)] = " " THEN RStrip(SubSeq(s, 1, Len(s) - 1)) ELSE s

_normalize_category_code(category_name) ==
    LET stripped == RStrip(LStrip(category_name))
    IN  [i \in 1..Len(stripped) |->
            IF stripped[i] = " " THEN "_" ELSE UpperChar(stripped[i])]

\* _parse_chart_filename: the identifier and the fields the layout depends on
_parse_chart_filename(f, airport, category) ==
    [id |-> <<LowerStr(airport), LowerStr(category), [md5 |-> f.name]>>,
     airport |-> airport,
     category |-> category,
     file_path |-> <<f.adir, f.cdir, f.name>>,
     file_name |-> f.name,
     file_size |-> f.size]

\* the files _scan_files collects before sorting
Qualifying(tree) == {f \in tree : Len(f.adir) = 4 /\ IsPdfName(f.name)}

ScanSet(tree) ==
    {_parse_chart_filename(f, f.adir, _normalize_category_code(f.cdir)) : f \in Qualifying(tree)}

\* sort key (airport, category, file_name), compared as Python compares tuples
KeyLess(x, y) ==
    \/ StrLess(x.airport, y.airport)
    \/ /\ x.airport = y.airport
       /\ \/ StrLess(x.category, y.category)
          \/ x.category = y.category /\ StrLess(x.file_name, y.file_name)

RECURSIVE Perms(_)
Perms(S) ==
    IF S = {} THEN {<<>>}
    ELSE UNION {{<<x>> \o p : p \in Perms(S \ {x})} : x \in S}

\* a scan that returns the files as the filesystem enumerated them
ScanWithoutSort(tree) == Perms(ScanSet(tree))

\* _scan_files: sorted() is stable, so infos with equal keys keep the order
\* in which iterdir()/glob() happened to enumerate them
_scan_files(tree) ==
    {fl \in Perms(ScanSet(tree)) :
        \A i \in 1..Len(fl), j \in 1..Len(fl) : i < j => ~KeyLess(fl[j], fl[i])}

DiskFileAt(tree, path) == CHOOSE f \in tree : <<f.adir, f.cdir, f.name>> = path

\* ------------------------------------------------------------------------
\* Files on disk: a sequence of segments; a byte is identified by the
\* segment it belongs to and its position in that segment.
\* ------------------------------------------------------------------------

NoFile == [exists |-> FALSE, segs |-> <<>>]

Segment(kind, body, len) == [kind |-> kind, body |-> body, len |-> len]

RECURSIVE SegStart(_, _)
SegStart(segs, k) == IF k <= 1 THEN 0 ELSE SegStart(segs, k - 1) + segs[k - 1].len

FileSize(segs) == SegStart(segs, Len(segs) + 1)

\* the byte at absolute position pos: <<segment, position in segment>>,
\* <<0, 0>> past the end of the file
ByteAt(segs, pos) ==
    IF pos < 0 \/ pos >= FileSize(segs) THEN <<0, 0>>
    ELSE LET k == CHOOSE k \in 1..Len(segs) :
                     SegStart(segs, k) <= pos /\ pos < SegStart(segs, k) + segs[k].len
         IN  <<k, pos - SegStart(segs, k)>>

\* ------------------------------------------------------------------------
\* AIPKGBuilder.create_package
\* ------------------------------------------------------------------------

IVs == {1, 2}                    \* values generate_iv() may return
Salts == {"salt1"}               \* values generate_salt() may return

\* number of characters of eaip_version[:128] (line 234)
EaipVersionLen == 16

StrongPassword == <<"T","e","s","t","P","a","s","s","1","2","3","!">>
WeakPassword == <<"1","2","3">>
BuilderPasswords == {StrongPassword, WeakPassword}

\* what output_path may hold before the call: nothing, or an earlier file
OldFile == [exists |-> TRUE, segs |-> <<Segment("old", "old", 7)>>]

NoIndex == [iv |-> 0, length |-> 0, first |-> <<>>, second |-> <<>>]

\* an except clause that re-raises without removing the temporary file
ExceptCleanupKeepsTemp(f) == f

\* except Exception (lines 275-280): the temporary file is removed if present
ExceptCleanup(f) == [f EXCEPT !.tmp = NoFile]

\* finally (lines 282-284)
Finally(b) == [b EXCEPT !.master_key = NoKey]

\* an exception raised inside the try block, with the filesystem as f
RaiseInTry(f, err) ==
    /\ fs' = ExceptCleanup(f)
    /\ builder' = Finally(builder)
    /\ pc' = "raised"
    /\ outcome' = err

\* before the call, some earlier file may lie at output_path
PlaceOldOutput ==
    /\ pc = "idle"
    /\ ~fs.out.exists
    /\ fs' = [fs EXCEPT !.out = OldFile, !.dir = TRUE]
    /\ UNCHANGED <<pc, args, srcTree, builder, file_list, file_entries,
                   encrypted_blocks, index, outcome, fs0, result>>

\* lines 73-118: checks, key material, scan, output directory
Begin ==
    /\ pc = "idle"
    /\ \E pw \in BuilderPasswords, comp \in {"gzip", "none"}, tree \in SUBSET DiskFiles,
          env \in {"ok", "no_source", "scan_error", "mkdir_error"}, salt \in Salts,
          callback \in BOOLEAN :
        /\ args' = [password |-> pw, compression |-> comp, progress_callback |-> callback]
        /\ srcTree' = tree
        /\ fs0' = fs
        /\ IF ~verify_password_strength(pw)
           THEN /\ pc' = "raised"
                /\ outcome' = "WeakPassword"
                /\ UNCHANGED <<builder, file_list, fs>>
           ELSE IF env = "no_source"
           THEN /\ pc' = "raised"
                /\ outcome' = "FileNotFoundError"
                /\ builder' = [builder EXCEPT !.enable_compression = (comp = "gzip")]
                /\ UNCHANGED <<file_list, fs>>
           ELSE LET b == [master_key |-> derive_master_key(pw, salt, PBKDF2_ITERATIONS),
                          master_salt |-> salt,
                          enable_compression |-> (comp = "gzip")]
                IN  /\ builder' = b
                    /\ IF env = "ok"
                       THEN /\ \E fl \in _scan_files(tree) : file_list' = fl
                            /\ fs' = [fs EXCEPT !.dir = TRUE]
                            /\ pc' = "seal"
                            /\ outcome' = "running"
                       ELSE /\ pc' = "raised"
                            /\ outcome' = "OSError"
                            /\ UNCHANGED <<file_list, fs>>
    /\ UNCHANGED <<file_entries, encrypted_blocks, index, result>>

\* _process_file (lines 379-439)
_process_file(file_info, offset, iv, b, tree) ==
    LET f == DiskFileAt(tree, file_info.file_path)
        original_size == f.size
        compressed_size == IF b.enable_compression THEN f.gzsize ELSE f.size
        compressed == [content |-> f.content, gzip |-> b.enable_compression]
        encrypted == encrypt_data(compressed, compressed_size, b.master_key, iv, file_info.id)
        entry == [id |-> file_info.id,
                  airport |-> file_info.airport,
                  category |-> file_info.category,
                  file_name |-> file_info.file_name,
                  offset |-> offset,
                  compressed_size |-> compressed_size,
                  original_size |-> original_size,
                  iv |-> iv,
                  file_hash |-> [sha256 |-> f.content]]
    IN  <<entry, encrypted>>

RECURSIVE BlocksLen(_)
BlocksLen(blocks) == IF blocks = <<>> THEN 0 ELSE Head(blocks).len + BlocksLen(Tail(blocks))

\* one iteration of the sealing loop (lines 127-140)
ProcessFile ==
    /\ pc = "seal"
    /\ Len(file_entries) < Len(file_list)
    /\ \E iv \in IVs, ok \in BOOLEAN :
        IF args.progress_callback /\ Len(file_list) = 0
        THEN \* (idx + 1) / len(file_list) at line 129
             /\ RaiseInTry(fs, "ZeroDivisionError")
             /\ UNCHANGED <<file_entries, encrypted_blocks>>
        ELSE IF ok
        THEN LET idx == Len(file_entries) + 1
                 current_offset == BlocksLen(encrypted_blocks)
                 r == _process_file(file_list[idx], current_offset, iv, builder, srcTree)
             IN  /\ file_entries' = Append(file_entries, r[1])
                 /\ encrypted_blocks' = Append(encrypted_blocks, r[2])
                 /\ UNCHANGED <<pc, builder, fs, outcome>>
        ELSE /\ RaiseInTry(fs, "OSError")
             /\ UNCHANGED <<file_entries, encrypted_blocks>>
    /\ UNCHANGED <<args, srcTree, file_list, index, fs0, result>>

\* a ratio that divides without looking at the divisor
RatioWithoutZeroCheck(entries) ==
    [num |-> SumSeq([i \in 1..Len(entries) |-> entries[i].compressed_size]),
     den |-> SumSeq([i \in 1..Len(entries) |-> entries[i].original_size])]

\* _calculate_compression_ratio (lines 501-509): a quotient, kept as a fraction
_calculate_compression_ratio(entries) ==
    LET total_original == SumSeq([i \in 1..Len(entries) |-> entries[i].original_size])
        total_compressed == SumSeq([i \in 1..Len(entries) |-> entries[i].compressed_size])
    IN  IF total_original = 0 THEN [num |-> 0, den |-> 1]
        ELSE [num |-> total_compressed, den |-> total_original]

\* _extract_airports (lines 441-456): one record per airport code
_extract_airports(fl) == {fl[i].airport : i \in 1..Len(fl)}

\* a fix-up that leaves the offsets relative to the data region
OffsetsLeftRelative(entries, data_start_offset) == entries

\* lines 180-182: entry.offset += data_start_offset
AdjustOffsets(entries, data_start_offset) ==
    [i \in 1..Len(entries) |->
        [entries[i] EXCEPT !.offset = entries[i].offset + data_start_offset]]

\* index.to_json() sealed under the master key (lines 166-173 and 186-192)
SealIndex(idx, key, iv) ==
    encrypt_data(idx, IndexJsonLen(idx.files), key, iv, "AIPKG_INDEX_V1")

\* package_info (lines 147-156) and the PackageIndex built from it (lines 158-163)
NewPackageIndex(fl, entries) ==
    [package_info |->
        [airports_count |-> Cardinality(_extract_airports(fl)),
         charts_count |-> Len(entries),
         total_size |-> SumSeq([i \in 1..Len(entries) |-> entries[i].original_size]),
         compression_ratio |-> _calculate_compression_ratio(entries)],
     airports |-> _extract_airports(fl),
     files |-> entries]

\* lines 142-192: build the index, seal it, fix the offsets up, seal it again
BuildIndex ==
    /\ pc = "seal"
    /\ Len(file_entries) = Len(file_list)
    /\ \E index_iv \in IVs, ok \in BOOLEAN :
        IF ok
        THEN LET idx == NewPackageIndex(file_list, file_entries)
                 first == SealIndex(idx, builder.master_key, index_iv)
                 index_offset == HEADER_SIZE
                 index_length == first.len
                 data_start_offset == index_offset + index_length
                 adjusted == AdjustOffsets(file_entries, data_start_offset)
                 second == SealIndex([idx EXCEPT !.files = adjusted], builder.master_key,
                                     index_iv)
             IN  /\ file_entries' = adjusted
                 /\ index' = [iv |-> index_iv, length |-> index_length,
                              first |-> first, second |-> second]
                 /\ pc' = "write"
                 /\ UNCHANGED <<builder, fs, outcome>>
        ELSE /\ RaiseInTry(fs, "Exception")
             /\ UNCHANGED <<file_entries, index>>
    /\ UNCHANGED <<args, srcTree, file_list, encrypted_blocks, fs0, result>>

\* the bytes written at lines 196-209
WrittenSegments(sealed_index, blocks) ==
    <<Segment("header", to_bytes(PlaceholderHeader), HEADER_SIZE),
      Segment("index", sealed_index, sealed_index.len)>>
    \o [i \in 1..Len(blocks) |-> Segment("data", blocks[i], blocks[i].len)]

\* lines 194-209: open the temporary file, write header, index and blocks
WritePackage ==
    /\ pc = "write"
    /\ \E ok \in BOOLEAN :
        IF ok
        THEN /\ fs' = [fs EXCEPT !.tmp = [exists |-> TRUE,
                                         segs |-> WrittenSegments(index.second, encrypted_blocks)]]
             /\ pc' = "hash"
             /\ UNCHANGED <<builder, outcome>>
        ELSE \* the write fails after the file was created
             RaiseInTry([fs EXCEPT !.tmp = [exists |-> TRUE,
                            segs |-> <<Segment("header", to_bytes(PlaceholderHeader), HEADER_SIZE)>>]],
                        "OSError")
    /\ UNCHANGED <<args, srcTree, file_list, file_entries, encrypted_blocks, index, fs0,
                   result>>

\* a hash taken over the whole file, placeholder header included
WholeFileHash(segs) == [sha256 |-> segs]

\* SHA-256 of everything after the header (lines 216-220)
BodyHash(segs) == [sha256 |-> SubSeq(segs, 2, Len(segs))]

\* lines 211-238: hash the body, write the final header over the placeholder
PatchHeader ==
    /\ pc = "hash"
    /\ \E ok \in BOOLEAN :
        IF ok
        THEN LET final_header ==
                     [index_offset |-> HEADER_SIZE,
                      index_length |-> index.length,
                      index_iv |-> PadTo(index.iv, IV_SIZE),
                      master_salt |-> PadTo(builder.master_salt, SALT_SIZE),
                      file_hash |-> PadTo(BodyHash(fs.tmp.segs), 32),
                      total_files |-> Len(file_entries),
                      total_data_size |->
                          SumSeq([i \in 1..Len(file_entries) |-> file_entries[i].original_size]),
                      compression_algo |-> IF builder.enable_compression THEN 1 ELSE 0,
                      metadata |-> EaipVersionLen]
             IN  /\ fs' = [fs EXCEPT !.tmp.segs[1] =
                                 Segment("header", to_bytes(final_header), HEADER_SIZE)]
                 /\ pc' = "move"
                 /\ UNCHANGED <<builder, outcome>>
        ELSE RaiseInTry(fs, "OSError")
    /\ UNCHANGED <<args, srcTree, file_list, file_entries, encrypted_blocks, index, fs0,
                   result>>

\* lines 241-242: os.remove(output_path) if it exists
RemoveOutput ==
    /\ pc = "move"
    /\ \E ok \in BOOLEAN :
        IF ok
        THEN /\ fs' = [fs EXCEPT !.out = NoFile]
             /\ pc' = "rename"
             /\ UNCHANGED <<builder, outcome>>
        ELSE /\ fs.out.exists
             /\ RaiseInTry(fs, "OSError")
    /\ UNCHANGED <<args, srcTree, file_list, file_entries, encrypted_blocks, index, fs0,
                   result>>

\* line 243: os.rename(temp_output, output_path)
RenameTemp ==
    /\ pc = "rename"
    /\ \E ok \in BOOLEAN :
        IF ok
        THEN /\ fs' = [fs EXCEPT !.out = fs.tmp, !.tmp = NoFile]
             /\ pc' = "stats"
             /\ UNCHANGED <<builder, outcome>>
        ELSE RaiseInTry(fs, "OSError")
    /\ UNCHANGED <<args, srcTree, file_list, file_entries, encrypted_blocks, index, fs0,
                   result>>

NoResult == [success |-> FALSE, total_files |-> 0, airports_count |-> 0,
             original_size |-> 0, compressed_size |-> 0, final_size |-> 0,
             compression_ratio |-> [num |-> 0, den |-> 1]]

\* a result that reports the number of airports as the number of files
StatsCountsAirports(fl, entries, out) ==
    [success |-> TRUE,
     total_files |-> Cardinality(_extract_airports(fl)),
     airports_count |-> Cardinality(_extract_airports(fl)),
     original_size |-> SumSeq([i \in 1..Len(entries) |-> entries[i].original_size]),
     compressed_size |-> SumSeq([i \in 1..Len(entries) |-> entries[i].compressed_size]),
     final_size |-> FileSize(out.segs),
     compression_ratio |-> _calculate_compression_ratio(entries)]

\* the dict of lines 246-258
Stats(fl, entries, out) ==
    [success |-> TRUE,
     total_files |-> Len(entries),
     airports_count |-> Cardinality(_extract_airports(fl)),
     original_size |-> SumSeq([i \in 1..Len(entries) |-> entries[i].original_size]),
     compressed_size |-> SumSeq([i \in 1..Len(entries) |-> entries[i].compressed_size]),
     final_size |-> FileSize(out.segs),
     compression_ratio |-> _calculate_compression_ratio(entries)]

\* lines 245-284: statistics, return, finally
Return ==
    /\ pc = "stats"
    /\ \E ok \in BOOLEAN :
        IF ok
        THEN /\ pc' = "returned"
             /\ outcome' = "success"
             /\ builder' = Finally(builder)
             /\ result' = Stats(file_list, file_entries, fs.out)
             /\ UNCHANGED fs
        ELSE /\ RaiseInTry(fs, "OSError")
             /\ UNCHANGED result
    /\ UNCHANGED <<args, srcTree, file_list, file_entries, encrypted_blocks, index, fs0>>

\* ------------------------------------------------------------------------
\* OfflineCredentialManager (offline_credential.py)
\* ------------------------------------------------------------------------

Users == {"u1", "u2"}
Passwords == {<<>>, <<"p">>, <<"q">>}
Fingerprints == {"fpA", "fpB"}
CacheDays == 1                   \* cache_days the managers are built with
MaxTime == 2                     \* the clock stops here

\* the bearer token the identity service issues (examples/auth_server.py,
\* lines 75-81): a JWT over the username and the device fingerprint
Jwt(username, fp) == [username |-> username, device_fingerprint |-> fp]
NoToken == Jwt("None", "None")
\* the user record of a login response (examples/auth_server.py, lines 86-94)
UserRecord(username) == [username |-> username]
NoUser == [username |-> "None"]

VAULT_KDF_ITERATIONS == 10000

\* datetime.isoformat() / datetime.fromisoformat()
isoformat(t) == [iso |-> t]
fromisoformat(str) == str.iso

\* hashlib.sha256(x).hexdigest()
sha256(x) == [sha256 |-> x]

NoCredential ==
    [username |-> "None", password_hash |-> sha256(<<>>), token |-> NoToken,
     device_fingerprint |-> "None", created_at |-> isoformat(0),
     expires_at |-> isoformat(0), user_info |-> NoUser]

\* json.dumps(asdict(credential)) and json.loads(...) followed by OfflineCredential(**d)
CredentialToJson(c) == [json |-> c]
CredentialFromJson(j) == j.json

NoVaultFile == [exists |-> FALSE, corrupt |-> FALSE, iv |-> 0,
                data |-> encrypt_data(CredentialToJson(NoCredential), 0, NoKey, 0, "None"),
                mtime |-> 0]

\* _get_cache_path: the file is named after sha256(username)[:16]
_get_cache_path(username) == username

\* _derive_encryption_key (lines 51-61); defined for a non-empty password
_derive_encryption_key(password, fp) ==
    derive_master_key(password, sha256(<<password, fp>>), VAULT_KDF_ITERATIONS)

VAULT_IV == 1                    \* the IV encrypt_data generates for a vault file

\* a credential whose expiry forgets cache_days
NewCredentialExpiresAtOnce(username, password, token, user_info, fp, t, cache_days) ==
    [username |-> username,
     password_hash |-> sha256(password),
     token |-> token,
     device_fingerprint |-> fp,
     created_at |-> isoformat(t),
     expires_at |-> isoformat(t),
     user_info |-> user_info]

\* the credential object of lines 84-92
NewCredential(username, password, token, user_info, fp, t, cache_days) ==
    [username |-> username,
     password_hash |-> sha256(password),
     token |-> token,
     device_fingerprint |-> fp,
     created_at |-> isoformat(t),
     expires_at |-> isoformat(t + cache_days),
     user_info |-> user_info]

SaveOutcomes == {"ok", "open_fails", "write_fails"}

\* save_credential (lines 63-118): the vault after the call and the value returned.
\* io: whether open() and write() of the cache file succeed.
save_credential(v, username, password, token, user_info, fp, t, cache_days, io) ==
    IF DeriveFails(password) \/ io = "open_fails"
    THEN [vault |-> v, result |-> FALSE]
    ELSE IF io = "write_fails"
    THEN [vault |-> [v EXCEPT ![_get_cache_path(username)] =
                        [NoVaultFile EXCEPT !.exists = TRUE, !.corrupt = TRUE, !.mtime = t]],
          result |-> FALSE]
    ELSE LET credential == NewCredential(username, password, token, user_info, fp, t, cache_days)
             key == _derive_encryption_key(password, fp)
             encrypted_data == encrypt_data(CredentialToJson(credential), 1, key,
                                            VAULT_IV, username)
         IN  [vault |-> [v EXCEPT ![_get_cache_path(username)] =
                            [exists |-> TRUE, corrupt |-> FALSE, iv |-> VAULT_IV,
                             data |-> encrypted_data, mtime |-> t]],
              result |-> TRUE]

\* a delete_credential that leaves the file where it is
DeleteCredentialKeepsFile(v, username) == v

\* delete_credential (lines 181-201)
delete_credential(v, username) == [v EXCEPT ![_get_cache_path(username)] = NoVaultFile]

\* a cleanup that also deletes the files exactly cache_days old
CleanupFromCacheDays(v, t, cache_days) ==
    LET expired == {p \in DOMAIN v : v[p].exists /\ t - v[p].mtime >= cache_days}
    IN  [vault |-> [p \in DOMAIN v |-> IF p \in expired THEN NoVaultFile ELSE v[p]],
         count |-> Cardinality(expired)]

\* cleanup_expired (lines 203-227): every *.credential file of the directory
\* whose age by st_mtime exceeds timedelta(days=self.cache_days) is unlinked
cleanup_expired(v, t, cache_days) ==
    LET expired == {p \in DOMAIN v : v[p].exists /\ t - v[p].mtime > cache_days}
    IN  [vault |-> [p \in DOMAIN v |-> IF p \in expired THEN NoVaultFile ELSE v[p]],
         count |-> Cardinality(expired)]

\* load_credential (lines 120-179): the vault after the call, whether a
\* credential is returned, and the credential
load_credential(v, username, password, fp, t) ==
    LET file == v[_get_cache_path(username)]
        none == [vault |-> v, found |-> FALSE, credential |-> NoCredential]
    IN  IF ~file.exists THEN none
        ELSE IF DeriveFails(password) THEN none
        ELSE IF file.corrupt THEN none
        ELSE IF ~DecryptOk(file.data, _derive_encryption_key(password, fp), file.iv, username)
        THEN none
        ELSE LET credential == CredentialFromJson(file.data.pt)
             IN  IF credential.password_hash /= sha256(password) THEN none
                 ELSE IF credential.device_fingerprint /= fp THEN none
                 ELSE IF t > fromisoformat(credential.expires_at)
                 THEN [vault |-> delete_credential(v, username), found |-> FALSE,
                       credential |-> NoCredential]
                 ELSE [vault |-> v, found |-> TRUE, credential |-> credential]

\* ------------------------------------------------------------------------
\* HybridSecurityManager (hybrid_security.py)
\* ------------------------------------------------------------------------

Insts == {1, 2}
SoloInsts == {1}                 \* the instances that act in SpecAuth
AuthUsers == {"u1"}              \* the usernames typed in SpecAuth

DefaultSecret == <<"A","v","i","a","t","i","o","n">>   \* the built-in _DISTRIBUTION_PASSWORD
OtherSecret == <<"s","e","c","r","e","t">>
DistPasswords == {DefaultSecret, OtherSecret, <<>>}    \* arguments of set_distribution_password

\* __init__ (lines 31-49)
NewManager(cache_days) ==
    [current_user |-> NoUser, current_token |-> NoToken, is_online_mode |-> FALSE,
     key |-> NoKey, cache_days |-> cache_days]

NoSession == [returned_true |-> FALSE, origin |-> "none"]

\* is_authenticated (lines 182-184)
is_authenticated(a) == a.current_user /= NoUser

\* SecureKeyManager.is_initialized
is_initialized(a) == a.key /= NoKey

\* _derive_distribution_key (lines 144-163): raises when the secret is empty
DistributionKey(dp) == derive_master_key(dp, sha256(dp), PBKDF2_ITERATIONS)

\* _offline_authenticate (lines 111-142)
_offline_authenticate(a, v, username, password, fp, t, dp) ==
    LET l == load_credential(v, username, password, fp, t)
        credential == l.credential
        base == [auth |-> a, vault |-> l.vault, result |-> "False", loaded |-> TRUE,
                 usable |-> FALSE, login |-> "not_attempted", credential |-> credential]
    IN  IF ~l.found THEN base
        ELSE IF t > fromisoformat(credential.expires_at) THEN base
        ELSE LET a1 == [a EXCEPT !.current_token = credential.token,
                                 !.current_user = credential.user_info,
                                 !.is_online_mode = FALSE]
             IN  IF DeriveFails(dp)
                 THEN [base EXCEPT !.auth = a1, !.usable = TRUE]
                 ELSE [base EXCEPT !.auth = [a1 EXCEPT !.key = DistributionKey(dp)],
                                   !.usable = TRUE, !.result = "True"]

LoginOutcomes == {"success", "auth_error", "network_error"}

\* an online path that treats a rejected login like a network failure
OnlineFallsBackOnAuthError(a, v, username, password, fp, t, dp, login, io) ==
    IF login = "success"
    THEN LET token == Jwt(username, fp)
             a1 == [a EXCEPT !.current_token = token,
                             !.current_user = UserRecord(username),
                             !.is_online_mode = TRUE]
             s == save_credential(v, username, password, token, a1.current_user,
                                  fp, t, a.cache_days, io)
         IN  [auth |-> [a1 EXCEPT !.key = DistributionKey(dp)], vault |-> s.vault,
              result |-> IF DeriveFails(dp) THEN "raised" ELSE "True", loaded |-> FALSE,
              usable |-> FALSE, login |-> login, credential |-> NoCredential]
    ELSE [_offline_authenticate(a, v, username, password, fp, t, dp) EXCEPT !.login = login]

\* _online_authenticate (lines 71-109).  login: what auth_client.login does;
\* io: the fate of the vault write.
_online_authenticate(a, v, username, password, fp, t, dp, login, io) ==
    IF login = "success"
    THEN LET token == Jwt(username, fp)
             a1 == [a EXCEPT !.current_token = token,
                             !.current_user = UserRecord(username),
                             !.is_online_mode = TRUE]
             s == save_credential(v, username, password, token, a1.current_user,
                                  fp, t, a.cache_days, io)
         IN  IF DeriveFails(dp)
             THEN [auth |-> a1, vault |-> s.vault, result |-> "raised", loaded |-> FALSE,
                   usable |-> FALSE, login |-> login, credential |-> NoCredential]
             ELSE [auth |-> [a1 EXCEPT !.key = DistributionKey(dp)], vault |-> s.vault,
                   result |-> "True", loaded |-> FALSE,
                   usable |-> FALSE, login |-> login, credential |-> NoCredential]
    ELSE IF login = "auth_error"
    THEN [auth |-> a, vault |-> v, result |-> "False", loaded |-> FALSE,
          usable |-> FALSE, login |-> login, credential |-> NoCredential]
    ELSE [_offline_authenticate(a, v, username, password, fp, t, dp) EXCEPT !.login = login]

\* authenticate (lines 51-69).  health: what check_network() returns.
authenticate(a, v, username, password, fp, t, dp, health, login, io) ==
    IF health
    THEN _online_authenticate(a, v, username, password, fp, t, dp, login, io)
    ELSE _offline_authenticate(a, v, username, password, fp, t, dp)

NoOp == [op |-> "none", inst |-> 0, username |-> "None", password |-> <<>>,
         result |-> "none", health |-> FALSE, login |-> "none", loaded |-> FALSE,
         usable |-> FALSE, remote |-> FALSE, origin |-> "none", replaced |-> FALSE,
         credential |-> NoCredential, token |-> NoToken, user_info |-> NoUser,
         before |-> NoVaultFile, cache_days |-> 0, count |-> 0,
         dir |-> [u \in Users |-> NoVaultFile], was |-> NewManager(0)]

\* the identity service answers a login without a password with status 400
\* (examples/auth_server.py, lines 52-57), which login() raises as AuthenticationError
LoginCanAnswer(password, login) == login = "success" => Len(password) > 0

Authenticate(i) ==
    \E username \in AuthUsers, password \in Passwords, health \in BOOLEAN,
       login \in LoginOutcomes, io \in SaveOutcomes :
        LET r == authenticate(auth[i], vault, username, password, device_fp, now,
                              dist_password, health, login, io)
        IN  /\ LoginCanAnswer(password, login)
            /\ auth' = [auth EXCEPT ![i] = r.auth]
            /\ vault' = r.vault
            /\ authed' = [authed EXCEPT ![i] =
                   IF r.result = "True"
                   THEN [returned_true |-> TRUE,
                         origin |-> IF r.loaded THEN "offline" ELSE "online"]
                   ELSE IF r.auth = auth[i] THEN @
                   ELSE [@ EXCEPT !.origin = IF r.loaded THEN "offline" ELSE "online"]]
            /\ last' = [NoOp EXCEPT !.op = "authenticate", !.inst = i,
                                    !.username = username, !.password = password,
                                    !.result = r.result, !.health = health,
                                    !.login = r.login, !.loaded = r.loaded,
                                    !.usable = r.usable, !.credential = r.credential,
                                    !.was = auth[i]]
            /\ UNCHANGED <<dist_password, now, device_fp>>

\* logout (lines 186-199).  The outcome of the remote call (True, False or
\* an exception) never reaches the caller.
logout(a) == [a EXCEPT !.current_user = NoUser, !.current_token = NoToken, !.key = NoKey]

\* a logout that calls the service whenever a token is held
RemoteLogoutWheneverToken(a) == a.current_token /= NoToken

\* line 188: the remote call is made for an online session holding a token
RemoteLogoutCalled(a) == a.is_online_mode /\ a.current_token /= NoToken

Logout(i) ==
    \E remote \in {"True", "False", "raises"} :
        /\ auth' = [auth EXCEPT ![i] = logout(@)]
        /\ authed' = [authed EXCEPT ![i] = NoSession]
        /\ last' = [NoOp EXCEPT !.op = "logout", !.inst = i,
                                !.result = remote,
                                !.remote = RemoteLogoutCalled(auth[i]),
                                !.origin = authed[i].origin]
        /\ UNCHANGED <<dist_password, vault, now, device_fp>>

\* get_distribution_password (lines 165-180)
GetDistributionPassword(i) ==
    /\ last' = [NoOp EXCEPT !.op = "get_distribution_password", !.inst = i,
                            !.result = IF is_authenticated(auth[i])
                                       THEN "returned" ELSE "ValueError",
                            !.password = IF is_authenticated(auth[i])
                                         THEN dist_password ELSE <<>>]
    /\ UNCHANGED <<dist_password, auth, vault, now, device_fp, authed>>

\* set_distribution_password (lines 209-220): assigns the class attribute
SetDistributionPassword ==
    \E password \in DistPasswords :
        /\ password /= dist_password
        /\ dist_password' = password
        /\ last' = [NoOp EXCEPT !.op = "set_distribution_password"]
        /\ UNCHANGED <<auth, vault, now, device_fp, authed>>

\* init_security (lines 240-253): sets the class attribute, then a new
\* manager takes the place of the global one (instance GlobalInst)
GlobalInst == 1

InitSecurity ==
    \E password \in DistPasswords :
        /\ dist_password' = password
        /\ auth' = [auth EXCEPT ![GlobalInst] = NewManager(CacheDays)]
        /\ authed' = [authed EXCEPT ![GlobalInst] = NoSession]
        /\ last' = [NoOp EXCEPT !.op = "init_security", !.inst = GlobalInst]
        /\ UNCHANGED <<vault, now, device_fp>>

\* a new HybridSecurityManager takes the place of instance i
Construct(i) ==
    /\ auth' = [auth EXCEPT ![i] = NewManager(CacheDays)]
    /\ authed' = [authed EXCEPT ![i] = NoSession]
    /\ last' = [NoOp EXCEPT !.op = "construct", !.inst = i]
    /\ UNCHANGED <<dist_password, vault, now, device_fp>>

\* the clock advances by a day
Tick ==
    /\ now < MaxTime
    /\ now' = now + 1
    /\ last' = [NoOp EXCEPT !.op = "tick"]
    /\ UNCHANGED <<dist_password, auth, vault, device_fp, authed>>

\* ------------------------------------------------------------------------
\* Direct use of the vault manager, and the environment of the vault
\* ------------------------------------------------------------------------

\* OfflineCredentialManager(cache_days).save_credential(...)
SaveWith(cache_days) ==
    \E username \in Users, password \in Passwords, io \in SaveOutcomes :
        LET token == Jwt(username, device_fp)
            user_info == UserRecord(username)
            s == save_credential(vault, username, password, token, user_info,
                                 device_fp, now, cache_days, io)
        IN  /\ vault' = s.vault
            /\ last' = [NoOp EXCEPT !.op = "save", !.username = username,
                                    !.password = password, !.token = token,
                                    !.user_info = user_info,
                                    !.result = IF s.result THEN "True" ELSE "False",
                                    !.replaced = vault[_get_cache_path(username)].exists]
            /\ UNCHANGED <<dist_password, auth, now, device_fp, authed>>

Save == SaveWith(CacheDays)

\* the cache_days of the managers that share the vault directory
ManagerCacheDays == {CacheDays, CacheDays + 1}

\* OfflineCredentialManager(cache_days).cleanup_expired()
CleanupExpired(cache_days) ==
    LET c == cleanup_expired(vault, now, cache_days)
    IN  /\ vault' = c.vault
        /\ last' = [NoOp EXCEPT !.op = "cleanup", !.cache_days = cache_days,
                                !.dir = vault, !.count = c.count]
        /\ UNCHANGED <<dist_password, auth, now, device_fp, authed>>

\* OfflineCredentialManager.load_credential(username, password)
Load ==
    \E username \in Users, password \in Passwords :
        LET l == load_credential(vault, username, password, device_fp, now)
        IN  /\ vault' = l.vault
            /\ last' = [NoOp EXCEPT !.op = "load", !.username = username,
                                    !.password = password,
                                    !.result = IF l.found THEN "credential" ELSE "None",
                                    !.credential = l.credential,
                                    !.before = vault[_get_cache_path(username)]]
            /\ UNCHANGED <<dist_password, auth, now, device_fp, authed>>

\* someone copies the vault file of one user to the path of another
CopyFile ==
    \E from \in Users, to \in Users :
        /\ from /= to
        /\ vault[_get_cache_path(from)].exists
        /\ vault' = [vault EXCEPT ![_get_cache_path(to)] = vault[_get_cache_path(from)]]
        /\ last' = [NoOp EXCEPT !.op = "copy", !.username = to]
        /\ UNCHANGED <<dist_password, auth, now, device_fp, authed>>

\* the vault directory is carried to another device, or the host's
\* fingerprint signals (hostname, OS version) change
ChangeDevice ==
    \E fp \in Fingerprints :
        /\ fp /= device_fp
        /\ device_fp' = fp
        /\ last' = [NoOp EXCEPT !.op = "change_device"]
        /\ UNCHANGED <<dist_password, auth, vault, now, authed>>

\* ------------------------------------------------------------------------
\* Applications of the functions of aipkg_format.py and encryption_utils.py
\* ------------------------------------------------------------------------

\* headers whose fields have valid widths: the byte fields as the builder
\* constructs them (12-byte IV, 32-byte digest) or at full field width
ProbeHeaders ==
    [index_offset : {HEADER_SIZE},
     index_length : {0, 177},
     index_iv : {PadTo(1, IV_SIZE), PadTo(1, 32)},
     master_salt : {PadTo("salt1", SALT_SIZE)},
     file_hash : {PadTo("digest", 32), PadTo("digest", 64)},
     total_files : {0, 3},
     total_data_size : {0, 70},
     compression_algo : {0, 1},
     metadata : {0, EaipVersionLen, 128, 129}]

\* passwords that take each branch of verify_password_strength
ProbePasswords ==
    { <<>>,
      <<"1","2","3">>,
      <<"A","b","c","d","e","1","!">>,
      <<"a","b","c","d","e","f","g","1">>,
      <<"A","B","C","D","E","F","G","1">>,
      <<"A","b","c","d","e","f","g","h">>,
      <<"A","b","c","d","e","f","g","1">>,
      <<"A","b","c","d","e","f","g","1","!">>,
      <<"T","e","s","t","P","a","s","s","1","2","3","!">>,
      <<"T","e","s","t","P","a","s","s","w","o","r","d","1","2","3","4">>,
      <<"P","a","s","s","w","o","r","d","1","2","3">>,
      <<"A","d","m","i","n","1","2","3">>,
      <<"A","b","c","d","e","f","g", ArabicIndicThree>>,
      <<CapitalNTilde, CapitalNTilde, CapitalNTilde, CapitalNTilde,
        SmallNTilde, SmallNTilde, SmallNTilde, "1">>,
      <<"A","b","c","d","e","f","g", SmallNTilde, "1">> }

NoProbe == [op |-> "none"]

\* verify_password_strength(p)
VerifyPassword ==
    \E p \in ProbePasswords :
        /\ probe' = [op |-> "verify_password_strength", password |-> p,
                     valid |-> verify_password_strength(p)]
        /\ UNCHANGED <<buildVars, authVars, cli>>

\* len(header.to_bytes()): the widths of '<4sHHQQ32s32s64sQQQII128s200s'
PackedSize(data) ==
    4 + 2 + 2 + 8 + 8 + data.index_iv.field_size + data.master_salt.field_size
      + data.file_hash.field_size + 8 + 8 + 8 + 4 + 4 + data.metadata.field_size + 200

\* from_bytes(h.to_bytes())
HeaderRoundTrip ==
    \E h \in ProbeHeaders :
        /\ probe' = [op |-> "from_bytes", header |-> h, data |-> to_bytes(h),
                     decoded |-> from_bytes(to_bytes(h))]
        /\ UNCHANGED <<buildVars, authVars, cli>>

\* ------------------------------------------------------------------------
\* scripts/build_aipkg.py: main()
\* ------------------------------------------------------------------------

\* the input checks of lines 113-136, each of which returns 1
InputChecks == {"source_missing", "source_not_a_directory", "passwords_differ",
                "password_too_short"}

\* lines 113-136: an input check fails
CliRejectInput ==
    /\ cli.pc = "main"
    /\ pc = "idle"
    /\ \E why \in InputChecks : cli' = [pc |-> "exited", code |-> 1, why |-> why]
    /\ UNCHANGED <<buildVars, authVars, probe>>

\* lines 139-144: the output file exists and the user does not answer yes
CliDeclineOverwrite ==
    /\ cli.pc = "main"
    /\ pc = "idle"
    /\ fs.out.exists
    /\ cli' = [pc |-> "exited", code |-> 0, why |-> "cancelled"]
    /\ UNCHANGED <<buildVars, authVars, probe>>

\* lines 146-161: the checks passed, main enters the try block
CliEnterTry ==
    /\ cli.pc = "main"
    /\ pc = "idle"
    /\ cli' = [cli EXCEPT !.pc = "try"]
    /\ UNCHANGED <<buildVars, authVars, probe>>

\* the value main returns once create_package has returned or raised
\* (lines 172-196): the summary divides final_size by original_size at
\* line 184, inside the try block
ExitCode(state, res) ==
    IF state = "raised" THEN 1
    ELSE IF res.original_size = 0 THEN 1
    ELSE 0

\* lines 172-187 and 193-196
CliReport ==
    /\ cli.pc = "try"
    /\ pc \in {"returned", "raised"}
    /\ cli' = [pc |-> "exited", code |-> ExitCode(pc, result),
               why |-> IF pc = "raised" THEN outcome
                       ELSE IF result.original_size = 0 THEN "ZeroDivisionError"
                       ELSE "done"]
    /\ UNCHANGED <<buildVars, authVars, probe>>

\* Ctrl-C inside the try block (lines 189-191): while create_package runs
\* its finally clause drops the key and its except clause, which catches
\* Exception only, is skipped; after it returned only the summary is cut short
CliInterrupt ==
    /\ cli.pc = "try"
    /\ pc \notin {"idle", "raised", "interrupted"}
    /\ cli' = [pc |-> "exited", code |-> 130, why |-> "interrupted"]
    /\ IF pc = "returned"
       THEN UNCHANGED <<pc, builder, outcome>>
       ELSE /\ pc' = "interrupted"
            /\ outcome' = "KeyboardInterrupt"
            /\ builder' = Finally(builder)
    /\ UNCHANGED <<args, srcTree, file_list, file_entries, encrypted_blocks, index,
                   fs, fs0, result, authVars, probe>>

\* ------------------------------------------------------------------------
\* Specifications
\* ------------------------------------------------------------------------

Init ==
    /\ pc = "idle"
    /\ args = [password |-> <<>>, compression |-> "gzip", progress_callback |-> FALSE]
    /\ srcTree = {}
    /\ builder = [master_key |-> NoKey, master_salt |-> "None", enable_compression |-> TRUE]
    /\ file_list = <<>>
    /\ file_entries = <<>>
    /\ encrypted_blocks = <<>>
    /\ index = NoIndex
    /\ fs = [out |-> NoFile, tmp |-> NoFile, dir |-> FALSE]
    /\ fs0 = [out |-> NoFile, tmp |-> NoFile, dir |-> FALSE]
    /\ outcome = "none"
    /\ result = NoResult
    /\ dist_password = DefaultSecret
    /\ auth = [i \in Insts |-> NewManager(CacheDays)]
    /\ vault = [u \in Users |-> NoVaultFile]
    /\ now = 0
    /\ device_fp = "fpA"
    /\ last = NoOp
    /\ authed = [i \in Insts |-> NoSession]
    /\ probe = NoProbe
    /\ cli = [pc |-> "main", code |-> 0, why |-> "none"]

\* one create_package call
Next ==
    \/ PlaceOldOutput /\ UNCHANGED <<authVars, probe, cli>>
    \/ Begin /\ UNCHANGED <<authVars, probe, cli>>
    \/ ProcessFile /\ UNCHANGED <<authVars, probe, cli>>
    \/ BuildIndex /\ UNCHANGED <<authVars, probe, cli>>
    \/ WritePackage /\ UNCHANGED <<authVars, probe, cli>>
    \/ PatchHeader /\ UNCHANGED <<authVars, probe, cli>>
    \/ RemoveOutput /\ UNCHANGED <<authVars, probe, cli>>
    \/ RenameTemp /\ UNCHANGED <<authVars, probe, cli>>
    \/ Return /\ UNCHANGED <<authVars, probe, cli>>

Spec == Init /\ [][Next]_vars

\* authenticators over a shared vault
NextAuth ==
    \/ \E i \in SoloInsts : Authenticate(i) /\ UNCHANGED <<buildVars, probe, cli>>
    \/ \E i \in SoloInsts : Logout(i) /\ UNCHANGED <<buildVars, probe, cli>>
    \/ \E i \in SoloInsts : GetDistributionPassword(i) /\ UNCHANGED <<buildVars, probe, cli>>
    \/ \E i \in SoloInsts : Construct(i) /\ UNCHANGED <<buildVars, probe, cli>>
    \/ SetDistributionPassword /\ UNCHANGED <<buildVars, probe, cli>>
    \/ Tick /\ UNCHANGED <<buildVars, probe, cli>>

SpecAuth == Init /\ [][NextAuth]_vars

\* two authenticators in one process
NextShared ==
    \/ \E i \in Insts : Authenticate(i) /\ UNCHANGED <<buildVars, probe, cli>>
    \/ \E i \in Insts : Logout(i) /\ UNCHANGED <<buildVars, probe, cli>>
    \/ \E i \in Insts : GetDistributionPassword(i) /\ UNCHANGED <<buildVars, probe, cli>>
    \/ SetDistributionPassword /\ UNCHANGED <<buildVars, probe, cli>>
    \/ InitSecurity /\ UNCHANGED <<buildVars, probe, cli>>

SpecShared == Init /\ [][NextShared]_vars

\* the vault manager used directly
NextVault ==
    \/ Save /\ UNCHANGED <<buildVars, probe, cli>>
    \/ Load /\ UNCHANGED <<buildVars, probe, cli>>
    \/ CopyFile /\ UNCHANGED <<buildVars, probe, cli>>
    \/ ChangeDevice /\ UNCHANGED <<buildVars, probe, cli>>
    \/ Tick /\ UNCHANGED <<buildVars, probe, cli>>

SpecVault == Init /\ [][NextVault]_vars

\* managers with different cache_days saving to and cleaning one directory
NextCleanup ==
    \/ (\E d \in ManagerCacheDays : SaveWith(d)) /\ UNCHANGED <<buildVars, probe, cli>>
    \/ (\E d \in ManagerCacheDays : CleanupExpired(d)) /\ UNCHANGED <<buildVars, probe, cli>>
    \/ Tick /\ UNCHANGED <<buildVars, probe, cli>>

SpecCleanup == Init /\ [][NextCleanup]_vars

\* one run of the command-line tool
NextCli ==
    \/ cli.pc = "main" /\ PlaceOldOutput /\ UNCHANGED <<authVars, probe, cli>>
    \/ CliRejectInput
    \/ CliDeclineOverwrite
    \/ CliEnterTry
    \/ cli.pc = "try" /\ Begin /\ UNCHANGED <<authVars, probe, cli>>
    \/ cli.pc = "try" /\ ProcessFile /\ UNCHANGED <<authVars, probe, cli>>
    \/ cli.pc = "try" /\ BuildIndex /\ UNCHANGED <<authVars, probe, cli>>
    \/ cli.pc = "try" /\ WritePackage /\ UNCHANGED <<authVars, probe, cli>>
    \/ cli.pc = "try" /\ PatchHeader /\ UNCHANGED <<authVars, probe, cli>>
    \/ cli.pc = "try" /\ RemoveOutput /\ UNCHANGED <<authVars, probe, cli>>
    \/ cli.pc = "try" /\ RenameTemp /\ UNCHANGED <<authVars, probe, cli>>
    \/ cli.pc = "try" /\ Return /\ UNCHANGED <<authVars, probe, cli>>
    \/ CliReport
    \/ CliInterrupt

SpecCli == Init /\ [][NextCli]_vars

\* applications of the pure functions
NextFormat ==
    \/ HeaderRoundTrip
    \/ VerifyPassword

SpecFormat == Init /\ [][NextFormat]_vars

\* ------------------------------------------------------------------------
\* Properties of create_package
\* ------------------------------------------------------------------------

\* the package at output_path after a successful call
Package == fs.out.segs
PackageHeader == Package[1].body
\* the entries of the index as it was sealed into the file
PackageEntries == Package[2].body.pt.files

\* a file at output_path is whole: the earlier file, or a package whose
\* header was patched and whose blocks were all written
WholeFile(file) ==
    \/ file = OldFile
    \/ /\ Len(file.segs) >= 2
       /\ file.segs[1].kind = "header"
       /\ file.segs[1].body.index_offset = HEADER_SIZE
       /\ file.segs[2].kind = "index"
       /\ Len(file.segs) = 2 + file.segs[1].body.total_files

\* C1: in a package create_package produced, the bytes at
\* [e.offset, e.offset + e.compressed_size + 16) are the blob sealed for e in
\* the first pass, for every entry e of the index.
C1_EntryBytesAreSealedBlob ==
    pc = "returned" =>
        \A k \in 1..Len(PackageEntries) :
            \A i \in 0..(PackageEntries[k].compressed_size + GCM_TAG_SIZE - 1) :
                ByteAt(Package, PackageEntries[k].offset + i) = <<k + 2, i>>

\* C2: header.index_length is the byte length of the sealed index written
\* after the header, so the data region starts at 512 + header.index_length.
C2_IndexLengthIsWrittenLength ==
    pc = "returned" =>
        /\ PackageHeader.index_length = Package[2].len
        /\ Len(Package) > 2 => SegStart(Package, 3) = HEADER_SIZE + PackageHeader.index_length

Acted == auth[last.inst]

\* C4: when the health check succeeds and the identity service rejects the
\* login (AuthError), authenticate returns False and does not read the vault.
C4_AuthErrorNoFallback ==
    (last.op = "authenticate" /\ last.health /\ last.login = "auth_error") =>
        /\ last.result = "False"
        /\ ~last.loaded

\* C4 witness: a rejected login while the vault holds a valid, unexpired
\* credential for the same username and password
C4_Witness ==
    /\ last.op = "authenticate"
    /\ last.health
    /\ last.login = "auth_error"
    /\ last.result = "False"
    /\ load_credential(vault, last.username, last.password, device_fp, now).found

\* C5: authenticate reads the vault exactly when the health check fails or
\* login fails with NetworkError; it then returns True in Offline mode, with
\* user and token from the credential, iff the load returned an unexpired
\* credential; login is never attempted when the health check fails.
C5_OfflineExactlyOnNetworkFailure ==
    last.op = "authenticate" =>
        /\ last.loaded <=> (~last.health \/ last.login = "network_error")
        /\ ~last.health => last.login = "not_attempted"
        /\ last.loaded =>
             (last.usable <=>
                 /\ last.result = "True"
                 /\ ~Acted.is_online_mode
                 /\ Acted.current_user = last.credential.user_info
                 /\ Acted.current_token = last.credential.token)

\* what a fresh authenticator answers with the identity service unreachable
FreshOffline(username, password, t) ==
    _offline_authenticate(NewManager(CacheDays), vault, username, password,
                          device_fp, t, dist_password)

\* C6: after authenticate(u, p) returned True in Online mode, a fresh
\* authenticator on the same device, offline and within cache_days, returns
\* True in Offline mode for (u, p) and False for (u, p') with p' /= p.
C6_OnlineSuccessEnablesOffline ==
    (last.op = "authenticate" /\ last.result = "True" /\ ~last.loaded) =>
        \A t \in now..(now + CacheDays) :
            /\ FreshOffline(last.username, last.password, t).result = "True"
            /\ ~FreshOffline(last.username, last.password, t).auth.is_online_mode
            /\ \A p \in Passwords \ {last.password} :
                   FreshOffline(last.username, p, t).result = "False"

\* C7: get_distribution_password returns the secret iff an authenticate call
\* has returned True since construction or the last logout; otherwise it
\* raises and returns nothing.
C7_SecretIffAuthenticateReturnedTrue ==
    last.op = "get_distribution_password" =>
        /\ last.result = "returned" <=> authed[last.inst].returned_true
        /\ last.result = "returned" => last.password = dist_password

\* C8: after logout, whatever the state before and whatever the remote call
\* does, no user, no token and no key are held; the remote call is made only
\* for a session established online.
C8_LogoutClears ==
    last.op = "logout" =>
        /\ Acted.current_user = NoUser
        /\ Acted.current_token = NoToken
        /\ ~is_initialized(Acted)
        /\ ~is_authenticated(Acted)
        /\ last.remote => last.origin = "online"

\* C8 witness: an online session was ended and the remote call raised
C8_Witness ==
    /\ last.op = "logout"
    /\ last.remote
    /\ last.result = "raises"
    /\ last.origin = "online"
    /\ ~is_initialized(Acted)

\* an offline session was ended by logout without a remote call
C8_OfflineLogoutReached ==
    last.op = "logout" /\ last.origin = "offline" /\ ~last.remote

\* ------------------------------------------------------------------------
\* Properties of the credential vault
\* ------------------------------------------------------------------------

\* the file load_credential(last.username, ...) read
LoadedFile == vault[_get_cache_path(last.username)]

\* C9: load(u, p) returns a credential only from a file that save wrote for
\* the same username and password on a device with the current fingerprint,
\* and not after expires_at; with a wrong password, on another device, or for
\* a file copied under another username it returns none.
C9_LoadOnlyOwnUnexpiredCredential ==
    /\ (last.op = "load" /\ last.result = "credential") =>
          /\ LoadedFile.exists
          /\ LoadedFile.data.aad = last.username
          /\ LoadedFile.data.key = _derive_encryption_key(last.password, device_fp)
          /\ CredentialFromJson(LoadedFile.data.pt) = last.credential
          /\ last.credential.username = last.username
          /\ last.credential.password_hash = sha256(last.password)
          /\ last.credential.device_fingerprint = device_fp
          /\ now <= fromisoformat(last.credential.expires_at)
    /\ (last.op = "load" /\ LoadedFile.exists /\ ~LoadedFile.corrupt
          /\ \/ CredentialFromJson(LoadedFile.data.pt).password_hash /= sha256(last.password)
             \/ CredentialFromJson(LoadedFile.data.pt).device_fingerprint /= device_fp
             \/ CredentialFromJson(LoadedFile.data.pt).username /= last.username) =>
          last.result = "None"

\* C9 witness: a load that returned a credential
C9_Witness ==
    /\ last.op = "load"
    /\ last.result = "credential"
    /\ last.credential.username = last.username

\* a file copied under another username was refused although the password
\* and the device are those of the save
C9_CopiedFileRefused ==
    /\ last.op = "load"
    /\ last.result = "None"
    /\ LoadedFile.exists
    /\ ~LoadedFile.corrupt
    /\ LoadedFile.data.aad /= last.username
    /\ LoadedFile.data.key = _derive_encryption_key(last.password, device_fp)
    /\ now <= fromisoformat(CredentialFromJson(LoadedFile.data.pt).expires_at)

\* what load(u, p) returns at time t for the arguments of the last save
LoadAfterSave(t) == load_credential(vault, last.username, last.password, device_fp, t)

\* the fields of the credential are those the last save was called with
AsSaved(c) ==
    /\ c.username = last.username
    /\ c.token = last.token
    /\ c.user_info = last.user_info
    /\ c.device_fingerprint = device_fp
    /\ c.created_at = isoformat(now)
    /\ c.expires_at = isoformat(now + CacheDays)

SavedFor(file, username, password, fp) ==
    /\ file.exists
    /\ ~file.corrupt
    /\ file.data.aad = username
    /\ file.data.key = _derive_encryption_key(password, fp)
    /\ CredentialFromJson(file.data.pt).password_hash = sha256(password)
    /\ CredentialFromJson(file.data.pt).device_fingerprint = fp

C11_AtExpiryReached ==
    /\ last.op = "load"
    /\ SavedFor(last.before, last.username, last.password, device_fp)
    /\ now = fromisoformat(CredentialFromJson(last.before.data.pt).expires_at)
    /\ last.result = "credential"

\* C12: load(u, p) on a corrupt vault file returns none without raising and
\* the corrupt file is deleted.
C12_CorruptIsRemoved ==
    (last.op = "load" /\ last.before.exists /\ last.before.corrupt) =>
        /\ last.result = "None"
        /\ ~LoadedFile.exists

\* ------------------------------------------------------------------------
\* Further properties of create_package
\* ------------------------------------------------------------------------

\* the bytes of the package from offset 512 to the end
PackageBody == SubSeq(Package, 2, Len(Package))

\* C13: in a package create_package produced, the 64-byte hash field of the
\* header holds SHA-256 of the bytes from offset 512 to the end of the file
\* followed by zeros, and those bytes are the sealed index and the sealed
\* blobs as they were written before the header was patched.
C13_BodyHashCoversBody ==
    pc = "returned" =>
        /\ Package[1].kind = "header"
        /\ Package[1].len = HEADER_SIZE
        /\ SegStart(Package, 2) = HEADER_SIZE
        /\ PackageHeader.file_hash = PadTo([sha256 |-> PackageBody], 64)
        /\ PackageBody = SubSeq(WrittenSegments(index.second, encrypted_blocks), 2,
                                Len(encrypted_blocks) + 2)

\* C13 witness: a package with at least two entries was produced
C13_Witness ==
    /\ pc = "returned"
    /\ Len(Package) >= 4
    /\ PackageHeader.file_hash = PadTo([sha256 |-> PackageBody], 64)

\* C14: in a package create_package produced, every index entry e satisfies
\* 512 + header.index_length <= e.offset < file_size and
\* e.offset + e.compressed_size + 16 <= file_size.
C14_EntriesLieInsideFile ==
    pc = "returned" =>
        \A k \in 1..Len(PackageEntries) :
            /\ HEADER_SIZE + PackageHeader.index_length <= PackageEntries[k].offset
            /\ PackageEntries[k].offset < FileSize(Package)
            /\ PackageEntries[k].offset + PackageEntries[k].compressed_size + GCM_TAG_SIZE
                   <= FileSize(Package)

\* C14 witness: a package with at least two entries, the first of which
\* starts exactly at 512 + header.index_length
C14_Witness ==
    /\ pc = "returned"
    /\ Len(PackageEntries) >= 2
    /\ PackageEntries[1].offset = HEADER_SIZE + PackageHeader.index_length
    /\ PackageEntries[2].offset + PackageEntries[2].compressed_size + GCM_TAG_SIZE
           <= FileSize(Package)

\* C15: in a package create_package produced, the identifiers of the index
\* entries are pairwise distinct.
C15_EntryIdsDistinct ==
    pc = "returned" =>
        \A i \in 1..Len(PackageEntries), j \in 1..Len(PackageEntries) :
            i /= j => PackageEntries[i].id /= PackageEntries[j].id

\* the package_info object of the index as it was sealed into the file
PackageInfo == Package[2].body.pt.package_info

\* C16: after a successful create_package, header.total_files, the number of
\* index entries, package_info.charts_count and the returned total_files all
\* equal the number of qualifying PDF files in the source tree, and
\* header.total_data_size is the sum of the entries' original sizes.
C16_CountsAgree ==
    pc = "returned" =>
        /\ PackageHeader.total_files = Cardinality(Qualifying(srcTree))
        /\ Len(PackageEntries) = Cardinality(Qualifying(srcTree))
        /\ PackageInfo.charts_count = Cardinality(Qualifying(srcTree))
        /\ result.total_files = Cardinality(Qualifying(srcTree))
        /\ PackageHeader.total_data_size =
               SumSeq([k \in 1..Len(PackageEntries) |-> PackageEntries[k].original_size])
        /\ \A k \in 1..Len(PackageEntries) :
               PackageEntries[k].original_size =
                   DiskFileAt(srcTree, file_list[k].file_path).size

\* C16 witness: a package of three files from a tree that also holds files
\* the scanner skips
C16_Witness ==
    /\ pc = "returned"
    /\ result.total_files = 3
    /\ Cardinality(srcTree) > 3
    /\ PackageHeader.total_files = 3

\* the builder as AIPKGBuilder() leaves it
FreshBuilder == [master_key |-> NoKey, master_salt |-> "None", enable_compression |-> TRUE]

\* C17: create_package with a password that fails the strength predicate
\* raises the weak-password error before any other effect: no key is
\* derived, no directory or temporary file is created, and output_path is as
\* it was.  The password "123" is such a password.
C17_WeakPasswordNoEffect ==
    /\ (pc /= "idle" /\ ~verify_password_strength(args.password)) =>
          /\ pc = "raised"
          /\ outcome = "WeakPassword"
          /\ builder = FreshBuilder
          /\ fs = fs0
          /\ file_list = <<>>
    /\ (pc /= "idle" /\ args.password = WeakPassword) => outcome = "WeakPassword"

\* C17 witness: the call was refused with an earlier file at output_path
C17_Witness ==
    /\ pc = "raised"
    /\ outcome = "WeakPassword"
    /\ args.password = WeakPassword
    /\ fs.out = OldFile
    /\ ~fs.tmp.exists

\* the call was refused where output_path's directory did not exist
C17_NoDirectoryReached ==
    /\ pc = "raised"
    /\ outcome = "WeakPassword"
    /\ ~fs.dir

\* C18: create_package on a source tree with no qualifying file, with or
\* without a progress callback, does not fail on the empty list; when it
\* returns, total_files, airports_count and compression_ratio are 0 and the
\* file is the 512-byte header followed by a sealed index of
\* header.index_length > 0 bytes and nothing else.
C18_EmptyTreePackage ==
    /\ (pc = "returned" /\ Qualifying(srcTree) = {}) =>
          /\ result.success
          /\ result.total_files = 0
          /\ result.airports_count = 0
          /\ result.compression_ratio = [num |-> 0, den |-> 1]
          /\ PackageInfo.compression_ratio = [num |-> 0, den |-> 1]
          /\ Len(Package) = 2
          /\ Package[1].kind = "header" /\ Package[1].len = HEADER_SIZE
          /\ Package[2].kind = "index" /\ Package[2].len = PackageHeader.index_length
          /\ PackageHeader.index_length > 0
          /\ PackageHeader.total_files = 0
          /\ PackageEntries = <<>>
          /\ FileSize(Package) = HEADER_SIZE + PackageHeader.index_length
    /\ (pc = "raised" /\ Qualifying(srcTree) = {}) => outcome /= "ZeroDivisionError"

\* C18 witness: an empty package built with a progress callback from a tree
\* that holds only files the scanner skips
C18_Witness ==
    /\ pc = "returned"
    /\ Qualifying(srcTree) = {}
    /\ srcTree /= {}
    /\ args.progress_callback
    /\ Len(Package) = 2

\* an empty package built without a progress callback from an empty tree
C18_NoCallbackReached ==
    /\ pc = "returned"
    /\ srcTree = {}
    /\ ~args.progress_callback
    /\ Len(Package) = 2

\* the sealed blob written for the k-th entry
PackageBlob(k) == Package[k + 2].body

\* C19: in a package create_package produced, the k-th sealed blob of the
\* data region belongs to the k-th index entry, the entries are in ascending
\* order of (airport, category, file name) whatever order the directories
\* were enumerated in, and the entry offsets are strictly increasing.
C19_EntriesAndBlobsInSortedOrder ==
    pc = "returned" =>
        /\ Len(Package) = Len(PackageEntries) + 2
        /\ \A k \in 1..Len(PackageEntries) :
              /\ Package[k + 2].kind = "data"
              /\ PackageBlob(k).aad = PackageEntries[k].id
              /\ PackageBlob(k).iv = PackageEntries[k].iv
              /\ [sha256 |-> PackageBlob(k).pt.content] = PackageEntries[k].file_hash
        /\ \A i \in 1..Len(PackageEntries), j \in 1..Len(PackageEntries) :
              i < j =>
                  /\ ~KeyLess(PackageEntries[j], PackageEntries[i])
                  /\ PackageEntries[i].offset < PackageEntries[j].offset

\* C19 witness: a package of three entries with three different keys
C19_Witness ==
    /\ pc = "returned"
    /\ Len(PackageEntries) = 3
    /\ KeyLess(PackageEntries[1], PackageEntries[2])
    /\ KeyLess(PackageEntries[2], PackageEntries[3])
    /\ PackageEntries[1].offset < PackageEntries[2].offset

\* the file is a complete package of this call
NewPackage(file) ==
    /\ file.exists
    /\ file /= OldFile
    /\ WholeFile(file)

\* C20: at every step of create_package and after a failure at any step,
\* output_path holds the complete file it held before the call (or nothing
\* if it held nothing) or the complete new package.
C20_FinalMoveAtomic ==
    pc /= "idle" => (fs.out = fs0.out \/ NewPackage(fs.out))

\* the call has failed and the file output_path held before it is gone
C20_OldFileLostAfterFailure ==
    /\ pc = "raised"
    /\ fs0.out = OldFile
    /\ ~fs.out.exists

\* ------------------------------------------------------------------------
\* Properties of the header format and the password predicate
\* ------------------------------------------------------------------------

\* the header with its metadata cut to 128 characters
MetadataTruncated(h) == [h EXCEPT !.metadata = IF h.metadata < 128 THEN h.metadata ELSE 128]

\* C21: for every header h with fields of valid widths,
\* from_bytes(h.to_bytes()) equals h field by field except that metadata is
\* truncated to 128 bytes.
C21_HeaderRoundTrip ==
    probe.op = "from_bytes" =>
        /\ probe.decoded = MetadataTruncated(probe.header)
        /\ PackedSize(probe.data) = HEADER_SIZE

LowerSeqSet == {LowerSeq[i] : i \in 1..26}
UpperSeqSet == {UpperSeq[i] : i \in 1..26}

\* letters and digits as str.islower, str.isupper and str.isdigit know them
IsLowercaseLetter(c) == c \in Lower \cup {SmallNTilde}
IsUppercaseLetter(c) == c \in Upper \cup {CapitalNTilde}
IsDigit(c) == c \in {"0","1","2","3","4","5","6","7","8","9", ArabicIndicThree}
IsAsciiDigit(c) == c \in {"0","1","2","3","4","5","6","7","8","9"}

\* C22 as stated: verify_password_strength(p) accepts p if and only if p has
\* at least 8 characters, contains a lowercase letter, an uppercase letter
\* and a digit, and its lowercased form is not in the denylist.
C22_AcceptsIffPolicy ==
    probe.op = "verify_password_strength" =>
        LET p == probe.password IN
        probe.valid <=>
            /\ Len(p) >= 8
            /\ \E i \in 1..Len(p) : IsLowercaseLetter(p[i])
            /\ \E i \in 1..Len(p) : IsUppercaseLetter(p[i])
            /\ \E i \in 1..Len(p) : IsDigit(p[i])
            /\ LowerStr(p) \notin weak_passwords

\* a password accepted although it holds none of the digits 0-9
C22_AsciiReadingReached ==
    /\ probe.op = "verify_password_strength"
    /\ probe.valid
    /\ \A i \in 1..Len(probe.password) : ~IsAsciiDigit(probe.password[i])

\* C22, amended: verify_password_strength(p) accepts p if and only if p has
\* at least 8 characters, contains a letter a-z, a letter A-Z and a Unicode
\* decimal digit, and its lowercased form is not in the denylist; a length
\* below 12 or the absence of a special character never causes rejection.
C22_AcceptsIffAsciiLetterPolicy ==
    probe.op = "verify_password_strength" =>
        LET p == probe.password IN
        probe.valid <=>
            /\ Len(p) >= 8
            /\ \E i \in 1..Len(p) : p[i] \in LowerSeqSet
            /\ \E i \in 1..Len(p) : p[i] \in UpperSeqSet
            /\ \E i \in 1..Len(p) : IsDigit(p[i])
            /\ LowerStr(p) \notin weak_passwords

\* an accepted password of fewer than 12 characters without a special
\* character
C22_Witness ==
    /\ probe.op = "verify_password_strength"
    /\ probe.valid
    /\ Len(probe.password) < 12
    /\ \A i \in 1..Len(probe.password) : probe.password[i] \notin Special

\* ------------------------------------------------------------------------
\* Properties of cleanup_expired
\* ------------------------------------------------------------------------

\* the files of the directory before the call that are more than cache_days old
OlderThanCacheDays ==
    {p \in DOMAIN last.dir : last.dir[p].exists /\ now - last.dir[p].mtime > last.cache_days}

C30_CleanupKeepsLoadable ==
    last.op = "cleanup" =>
        \A username \in Users, password \in Passwords :
            load_credential(last.dir, username, password, device_fp, now).found
                => vault[_get_cache_path(username)].exists

\* ------------------------------------------------------------------------
\* Properties of the command-line tool
\* ------------------------------------------------------------------------

\* C24: the tool exits with code 0 whenever create_package completed
\* successfully (for every source tree, including one with no qualifying
\* files), with code 1 when the build or an input check failed, and with
\* code 130 when interrupted.
C24_ExitCodes ==
    cli.pc = "exited" =>
        /\ (pc = "returned" /\ cli.why /= "interrupted") => cli.code = 0
        /\ (pc = "raised" \/ cli.why \in InputChecks) => cli.code = 1
        /\ cli.why = "interrupted" => cli.code = 130

\* the tool exited with 1 although create_package returned the package
C24_SuccessReportedAsFailure ==
    /\ cli.pc = "exited"
    /\ pc = "returned"
    /\ fs.out.exists
    /\ cli.code = 1

\* ------------------------------------------------------------------------
\* Properties of the authenticator's state
\* ------------------------------------------------------------------------

\* C25: an authenticate call that returns false leaves the authenticator's
\* current user, current token and key holder exactly as they were before
\* the call; an authenticator that was unauthenticated before a failed
\* authenticate is unauthenticated after it and holds no key.
C25_FailedAuthenticateChangesNothing ==
    (last.op = "authenticate" /\ last.result = "False") =>
        LET a == auth[last.inst] IN
        /\ a.current_user = last.was.current_user
        /\ a.current_token = last.was.current_token
        /\ a.key = last.was.key
        /\ ~is_authenticated(last.was) => (~is_authenticated(a) /\ ~is_initialized(a))

\* authenticate returned False to an unauthenticated caller and left it
\* authenticated
C25_AuthenticatedAfterFalse ==
    /\ last.op = "authenticate"
    /\ last.result = "False"
    /\ ~is_authenticated(last.was)
    /\ is_authenticated(auth[last.inst])

\* C26: between authenticator operations the key holder holds a key if and
\* only if the authenticator is authenticated: is_initialized() equals
\* is_authenticated() on every instance.
C26_KeyHeldIffAuthenticated ==
    \A i \in Insts : is_initialized(auth[i]) <=> is_authenticated(auth[i])

\* an authenticated instance without a key
C26_AuthenticatedWithoutKey ==
    \E i \in Insts : is_authenticated(auth[i]) /\ ~is_initialized(auth[i])

\* ------------------------------------------------------------------------
\* Properties of the builder's key and IVs
\* ------------------------------------------------------------------------

\* C27: whenever create_package has returned or raised, at any step after
\* the master key was derived, the builder no longer holds the master key.
C27_KeyDroppedAtEnd ==
    pc \in {"returned", "raised"} => builder.master_key = NoKey

\* the call raised before the try block and the builder still holds the key
C27_KeyKeptAfterRaise ==
    /\ pc = "raised"
    /\ outcome = "OSError"
    /\ builder.master_key = derive_master_key(args.password, builder.master_salt,
                                              PBKDF2_ITERATIONS)

\* the AEAD encryptions made under the master key so far in this call
Encryptions ==
    {encrypted_blocks[i] : i \in 1..Len(encrypted_blocks)}
        \cup (IF index = NoIndex THEN {} ELSE {index.first, index.second})

\* the values generate_iv() returned so far in this call are all different
DrawsDistinct ==
    Cardinality({file_entries[i].iv : i \in 1..Len(file_entries)}
                    \cup (IF index = NoIndex THEN {} ELSE {index.iv}))
        = Len(file_entries) + (IF index = NoIndex THEN 0 ELSE 1)

\* C28: within one create_package call no two encryptions of different
\* plaintexts under the master key use the same IV (given that the random
\* generator never returns the same IV twice).
C28_NoIvReuse ==
    DrawsDistinct =>
        \A e1 \in Encryptions, e2 \in Encryptions :
            (e1.pt /= e2.pt /\ e1.key = e2.key) => e1.iv /= e2.iv

\* the index was sealed twice with one IV over different contents while all
\* generated IVs differ
C28_IndexIvUsedTwice ==
    /\ index /= NoIndex
    /\ DrawsDistinct
    /\ index.first.iv = index.second.iv
    /\ index.first.pt /= index.second.pt

\* ------------------------------------------------------------------------
\* Properties of authenticators that live side by side
\* ------------------------------------------------------------------------

\* C29: no operation on one instance (set_distribution_password and
\* init_security included) changes what get_distribution_password returns
\* on another already-authenticated instance, and on every authenticated
\* instance the key held is the one derived from the secret that
\* get_distribution_password returns.
C29_InstancesShareNoSecret ==
    [][\A j \in Insts :
          /\ (is_authenticated(auth[j]) /\ auth'[j] = auth[j])
                => dist_password' = dist_password
          /\ (is_authenticated(auth'[j]) /\ is_initialized(auth'[j]))
                => auth'[j].key = DistributionKey(dist_password')]_vars

\* instance 2 is authenticated and holds a key derived from another secret
\* than the one it returns, after an operation that was not made on it
C29_StaleKeyOnOtherInstance ==
    /\ last.op \in {"set_distribution_password", "init_security"}
    /\ is_authenticated(auth[2])
    /\ is_initialized(auth[2])
    /\ auth[2].key /= DistributionKey(dist_password)

====
